---- MODULE Spec2Model ----
(***************************************************************************)
(* Model of TailEventGraphs/tail_events_distribution_graphs.py.            *)
(*                                                                         *)
(* The module has three functions (calculate_tails, calculate_xrange,      *)
(* plot_tail_events) and a script entry point.  The state is what the      *)
(* functions act on: pyplot's process-wide figure registry and current     *)
(* figure, the files written by savefig, the script's standard output,     *)
(* and a record of the last operation with its outcome.                    *)
(*                                                                         *)
(* Numbers.  The source computes with floats.  Here every x-axis quantity  *)
(* (loc, mean, std, tail boundary, domain edge) is an integer number of    *)
(* thousandths (Unit), a sampled x-value is the numerator of a fraction    *)
(* whose denominator is Div(n), and a density is an integer number of      *)
(* thousandths.  Sums, differences and products by integers are exact.     *)
(***************************************************************************)
EXTENDS Integers, Sequences, FiniteSets, TLC

VARIABLES figs, active, files, stdout, pc, last

vars == <<figs, active, files, stdout, pc, last>>

(***************************************************************************)
(* Bounds of the model.                                                    *)
(***************************************************************************)
MaxFigures == 2
MaxMean == 4
MaxStd == 5

(***************************************************************************)
(* Fixed-point scale of the float quantities.                              *)
(***************************************************************************)
Unit == 1000

Abs(v) == IF v < 0 THEN -v ELSE v

(***************************************************************************)
(* calculate_tails and calculate_xrange                                    *)
(***************************************************************************)
calculate_tails(mean, std) == <<mean - 3 * std, mean + 3 * std>>

\* Variant: the domain ends at the tail boundaries.
calculate_xrange_tight(mean, std) == <<mean - 3 * std, mean + 3 * std>>

calculate_xrange(mean, std) == <<mean - 4 * std, mean + 4 * std>>

(***************************************************************************)
(* The lookup table of plot_tail_events: accepted name -> scipy family.    *)
(* Its keys are the names the function accepts.                            *)
(***************************************************************************)
distributions ==
    [normal |-> "norm", uniform |-> "uniform",
     Laplace |-> "laplace", exponential |-> "expon"]

\* The names the assertion message enumerates.
MessageNames == {"normal", "uniform", "Laplace", "exponential"}

\* The names the docstring of plot_tail_events says are accepted.
DocstringNames == {"normal", "uniform", "laplace", "exponential"}

(***************************************************************************)
(* The keyword parameters of a call, forwarded to the distribution's       *)
(* constructor: loc and scale, which default to 0 and 1.                   *)
(***************************************************************************)
NoParams == [loc |-> 0, scale |-> 1]

ParamChoices == {NoParams, [loc |-> 1, scale |-> 2]}

\* distributions[distribution](**params): the frozen distribution.
Frozen(distribution, params) ==
    [family |-> distributions[distribution],
     loc |-> params.loc, scale |-> params.scale]

\* dist.mean(), in thousandths.
Mean(dist) ==
    CASE dist.family = "norm" -> dist.loc * Unit
      [] dist.family = "uniform" -> dist.loc * Unit + (dist.scale * Unit) \div 2
      [] dist.family = "laplace" -> dist.loc * Unit
      [] dist.family = "expon" -> (dist.loc + dist.scale) * Unit

\* dist.std(), in thousandths: scale, scale/sqrt(12), scale*sqrt(2), scale.
Std(dist) ==
    CASE dist.family = "norm" -> dist.scale * Unit
      [] dist.family = "uniform" -> dist.scale * 289
      [] dist.family = "laplace" -> dist.scale * 1414
      [] dist.family = "expon" -> dist.scale * Unit

(***************************************************************************)
(* np.linspace(start, stop, num) for num >= 0, endpoint included.  numpy   *)
(* computes step = (stop - start) / div with div = num - 1, the values     *)
(* start + i * step, and overwrites the last value with stop when          *)
(* num > 1.  The result here holds the numerators over Div(num).           *)
(***************************************************************************)
Div(num) == IF num > 1 THEN num - 1 ELSE 1

\* Variant: endpoint excluded, step = (stop - start) / num.
linspace_open(start, stop, num) ==
    [i \in 1..num |-> start * Div(num) + ((i - 1) * (stop - start) * Div(num)) \div num]

\* Variant: the last value is overwritten with stop also when num = 1.
linspace_overwrite(start, stop, num) ==
    [i \in 1..num |->
        IF i = num
        THEN stop * Div(num)
        ELSE start * Div(num) + (i - 1) * (stop - start)]

linspace(start, stop, num) ==
    [i \in 1..num |->
        IF num > 1 /\ i = num
        THEN stop * Div(num)
        ELSE start * Div(num) + (i - 1) * (stop - start)]

(***************************************************************************)
(* dist.pdf(x) at the x-value xnum / d, in thousandths.  exp(-t) is read   *)
(* from a table of e^-k (k = 0..8) with linear interpolation; t is given   *)
(* in thousandths.                                                         *)
(***************************************************************************)
ExpTable == <<1000, 368, 135, 50, 18, 7, 2, 1, 0>>

ExpNeg(t) ==
    LET k == t \div Unit
    IN  IF k >= 8 THEN 0
        ELSE ExpTable[k + 1] - ((ExpTable[k + 1] - ExpTable[k + 2]) * (t % Unit)) \div Unit

pdf(dist, xnum, d) ==
    LET off == xnum - dist.loc * Unit * d
        a == Abs(off) \div (dist.scale * d)
    IN  CASE dist.family = "norm" ->
                (399 * ExpNeg((a * a) \div (2 * Unit))) \div (Unit * dist.scale)
          [] dist.family = "uniform" ->
                IF off >= 0 /\ off <= dist.scale * Unit * d
                THEN Unit \div dist.scale ELSE 0
          [] dist.family = "laplace" -> ExpNeg(a) \div (2 * dist.scale)
          [] dist.family = "expon" ->
                IF off >= 0 THEN ExpNeg(a) \div dist.scale ELSE 0

\* Python's max(y) for a non-empty sequence.
max(y) == CHOOSE m \in {y[i] : i \in 1..Len(y)} : \A i \in 1..Len(y) : y[i] <= m

(***************************************************************************)
(* pyplot.  ps = [figs, active] is pyplot's state: figs is the registry    *)
(* of open figures (figure number = index; nothing in the module closes a  *)
(* figure) and active is the number of the current figure, 0 when there    *)
(* is none.  Each figure has one axes; the record holds what was drawn on  *)
(* it.  A length in ylim is kept in tenths of thousandths.                 *)
(***************************************************************************)
NewFigure ==
    [fills |-> <<>>, title |-> "", xlabel |-> "", ylabel |-> "",
     xtick_fontsize |-> 10, yticks |-> "auto", vlines |-> <<>>, ylim |-> <<>>]

\* Variant: the last figure of the registry is cleared and used again.
subplots_reuse(ps) ==
    IF ps.figs = <<>>
    THEN [figs |-> <<NewFigure>>, active |-> 1]
    ELSE [figs |-> [ps.figs EXCEPT ![Len(ps.figs)] = NewFigure],
          active |-> Len(ps.figs)]

\* Variant: the new figure is not made the current one.
subplots_detached(ps) ==
    [figs |-> Append(ps.figs, NewFigure), active |-> ps.active]

\* plt.subplots(1, 1, ...): a new figure, made the current one.
subplots(ps) ==
    [figs |-> Append(ps.figs, NewFigure), active |-> Len(ps.figs) + 1]

\* plt.gcf(): the current figure, created when there is none.
gcf(ps) ==
    IF ps.active = 0
    THEN [figs |-> Append(ps.figs, NewFigure), active |-> Len(ps.figs) + 1]
    ELSE ps

\* The where-masks of the three fill_between calls.
where_all(x) == [i \in 1..Len(x) |-> TRUE]

\* Variant: tail membership with <= instead of <.
where_le(x, d, bound) == [i \in 1..Len(x) |-> x[i] <= bound * d]

where_lt(x, d, bound) == [i \in 1..Len(x) |-> x[i] < bound * d]

where_gt(x, d, bound) == [i \in 1..Len(x) |-> x[i] > bound * d]

\* ax.fill_between(x, 0, y, where=where, facecolor=facecolor)
ax_fill_between(ps, ax, x, y, where, facecolor) ==
    [ps EXCEPT !.figs[ax].fills =
        Append(@, [x |-> x, y |-> y, where |-> where, facecolor |-> facecolor])]

\* The loop over ax.xaxis.get_major_ticks() and ax.set_yticks([]).
ax_ticks(ps, ax) ==
    [ps EXCEPT !.figs[ax].xtick_fontsize = 14, !.figs[ax].yticks = "none"]

plt_title(ps, s) == LET q == gcf(ps) IN [q EXCEPT !.figs[q.active].title = s]

plt_xlabel(ps, s) == LET q == gcf(ps) IN [q EXCEPT !.figs[q.active].xlabel = s]

plt_ylabel(ps, s) == LET q == gcf(ps) IN [q EXCEPT !.figs[q.active].ylabel = s]

plt_axvline(ps, x, linestyle) ==
    LET q == gcf(ps)
    IN  [q EXCEPT !.figs[q.active].vlines = Append(@, [x |-> x, linestyle |-> linestyle])]

plt_ylim(ps, lo, hi) == LET q == gcf(ps) IN [q EXCEPT !.figs[q.active].ylim = <<lo, hi>>]

(***************************************************************************)
(* plot_tail_events.  The result is pyplot's state after the call, how     *)
(* the call ended (returned, or raised error at source line at), the axes  *)
(* returned, the names the error message lists, and the sampled sequences  *)
(* when the call got that far.                                             *)
(***************************************************************************)
Outcome(ps, status, error, at, ret, x, y) ==
    [ps |-> ps, status |-> status, error |-> error, at |-> at, ret |-> ret,
     message |-> IF error = "AssertionError" THEN MessageNames ELSE {},
     x |-> x, y |-> y]

\* Lines 82-102, entered with the sampled sequences.
draw(ps, distribution, n, tail_color, center_color, mean, tails, x, y) ==
    LET d  == Div(n)
        p1 == subplots(ps)
        ax == Len(p1.figs)
        p2 == ax_fill_between(p1, ax, x, y, where_all(x), center_color)
        p3 == ax_fill_between(p2, ax, x, y, where_lt(x, d, tails[1]), tail_color)
        p4 == ax_fill_between(p3, ax, x, y, where_gt(x, d, tails[2]), tail_color)
        p5 == plt_title(p4, "Tail events for " \o distribution \o " distribution")
        p6 == plt_ylabel(plt_xlabel(p5, "x"), "f(x)")
        p7 == ax_ticks(p6, ax)
        p8 == plt_axvline(plt_axvline(plt_axvline(p7,
                    tails[1], "-"), tails[2], "-"), mean, "--")
    IN  IF Len(y) = 0
        THEN Outcome(p8, "raised", "ValueError", 100, 0, x, y)
        ELSE Outcome(plt_ylim(p8, 0, 12 * max(y)), "returned", "", 0, ax, x, y)

plot_tail_events(ps, distribution, n, tail_color, center_color, params) ==
    IF distribution \notin DOMAIN distributions
    THEN Outcome(ps, "raised", "AssertionError", 62, 0, <<>>, <<>>)
    ELSE LET dist   == Frozen(distribution, params)
             mean   == Mean(dist)
             std    == Std(dist)
             xrange == calculate_xrange(mean, std)
         IN  IF n < 0
             THEN Outcome(ps, "raised", "ValueError", 75, 0, <<>>, <<>>)
             ELSE LET x == linspace(xrange[1], xrange[2], n)
                      y == [i \in 1..Len(x) |-> pdf(dist, x[i], Div(n))]
                  IN  draw(ps, distribution, n, tail_color, center_color,
                           mean, calculate_tails(mean, std), x, y)

(***************************************************************************)
(* plt.savefig(fname): the current figure is written to a file.  fname     *)
(* has no extension, so the default format and its extension are used.     *)
(***************************************************************************)
\* Variant: the file name is used as given.
savefig_verbatim(fname) == fname

savefig_name(fname) == fname \o ".png"

savefig(ps, fs, fname) ==
    LET q == gcf(ps)
    IN  fs \cup {[name |-> savefig_name(fname), figure |-> q.figs[q.active]]}

(***************************************************************************)
(* Inputs.                                                                 *)
(***************************************************************************)
Names == DOMAIN distributions \cup DocstringNames \cup {"gamma"}

NValues == {-1, 0, 1, 2, 9}

DefaultTailColor == "#ff0000"

DefaultCenterColor == "#e6ffff"

ArgvChoices == {<<"prog">>} \cup {<<"prog", name>> : name \in Names}

(***************************************************************************)
(* State machine.  pc is "start" in a fresh interpreter, "imported" once   *)
(* a caller uses the module as a library, "exited" after the script ran.   *)
(***************************************************************************)
Init ==
    /\ figs = <<>>
    /\ active = 0
    /\ files = {}
    /\ stdout = <<>>
    /\ pc = "start"
    /\ last = [op |-> "none"]

\* A caller's call of plot_tail_events.
PlotTailEvents(distribution, n, tail_color, center_color, params) ==
    /\ pc \in {"start", "imported"}
    /\ Len(figs) < MaxFigures
    /\ \E r \in {plot_tail_events([figs |-> figs, active |-> active],
                    distribution, n, tail_color, center_color, params)} :
           /\ figs' = r.ps.figs
           /\ active' = r.ps.active
           /\ last' = [op |-> "plot_tail_events", distribution |-> distribution,
                       n |-> n, tail_color |-> tail_color,
                       center_color |-> center_color, params |-> params,
                       status |-> r.status, error |-> r.error, at |-> r.at,
                       message |-> r.message, ret |-> r.ret, x |-> r.x, y |-> r.y,
                       nfigs_before |-> Len(figs)]
    /\ pc' = "imported"
    /\ UNCHANGED <<files, stdout>>

\* The script, lines 104-108, run with command line argv.
Main(argv) ==
    /\ pc = "start"
    /\ pc' = "exited"
    /\ IF Len(argv) < 2
       THEN /\ last' = [op |-> "main", argv |-> argv, status |-> "raised",
                        error |-> "IndexError", at |-> 105, message |-> {},
                        ret |-> 0]
            /\ UNCHANGED <<figs, active, files, stdout>>
       ELSE \E r \in {plot_tail_events([figs |-> figs, active |-> active],
                        argv[2], 100, "#ff0000", "#e6ffff", NoParams)} :
                /\ stdout' = Append(stdout,
                        "Creating plot for " \o argv[2] \o " distribution.")
                /\ figs' = r.ps.figs
                /\ active' = r.ps.active
                /\ files' = IF r.status = "returned"
                            THEN savefig(r.ps, files, argv[2])
                            ELSE files
                /\ last' = [op |-> "main", argv |-> argv, status |-> r.status,
                            error |-> r.error, at |-> r.at, message |-> r.message,
                            ret |-> r.ret]

\* A caller's call of calculate_tails.
CalculateTails(mean, std) ==
    /\ pc \in {"start", "imported"}
    /\ pc' = "imported"
    /\ last' = [op |-> "calculate_tails", mean |-> mean, std |-> std,
                ret |-> calculate_tails(mean, std)]
    /\ UNCHANGED <<figs, active, files, stdout>>

\* A caller's call of calculate_xrange.
CalculateXrange(mean, std) ==
    /\ pc \in {"start", "imported"}
    /\ pc' = "imported"
    /\ last' = [op |-> "calculate_xrange", mean |-> mean, std |-> std,
                ret |-> calculate_xrange(mean, std)]
    /\ UNCHANGED <<figs, active, files, stdout>>

Next ==
    \/ \E distribution \in Names, n \in NValues, params \in ParamChoices :
          PlotTailEvents(distribution, n, DefaultTailColor, DefaultCenterColor, params)
    \/ \E argv \in ArgvChoices : Main(argv)

Spec == Init /\ [][Next]_vars

NextCalc ==
    \/ \E mean \in (-MaxMean)..MaxMean, std \in 0..MaxStd : CalculateTails(mean, std)
    \/ \E mean \in (-MaxMean)..MaxMean, std \in 0..MaxStd : CalculateXrange(mean, std)

SpecCalc == Init /\ [][NextCalc]_vars

(***************************************************************************)
(* Properties.                                                             *)
(***************************************************************************)
IsCall == last.op = "plot_tail_events"

\* The quantities of the last call of plot_tail_events, for an accepted name.
CallDist == Frozen(last.distribution, last.params)

CallLower == Mean(CallDist) - 3 * Std(CallDist)

CallUpper == Mean(CallDist) + 3 * Std(CallDist)

CallXmin == Mean(CallDist) - 4 * Std(CallDist)

CallXmax == Mean(CallDist) + 4 * Std(CallDist)

\* A figure on which every step of lines 85-100 has acted.
Complete(f) ==
    /\ Len(f.fills) = 3
    /\ Len(f.vlines) = 3
    /\ f.title # ""
    /\ f.ylim # <<>>

\* C1: a call with one of the four names 'normal', 'uniform', 'laplace',
\* 'exponential', no extra parameters and a positive sample count gets past
\* the name validation and returns a (figure, axis) pair.
C1_DocumentedNamesAccepted ==
    (IsCall /\ last.distribution \in DocstringNames /\ last.params = NoParams
        /\ last.n >= 1)
    => (last.status = "returned" /\ last.ret = Len(figs))

\* C2: a call with a name outside 'normal', 'uniform', 'laplace',
\* 'exponential' fails with the name-validation error, and the names its
\* message lists are exactly those four.
C2_UnsupportedNamesRejected ==
    (IsCall /\ last.distribution \notin DocstringNames)
    => (/\ last.status = "raised"
        /\ last.error = "AssertionError"
        /\ last.message = DocstringNames)

\* C3: whenever a call of plot_tail_events raises, no figure has been added
\* to the registry.
C3_NoPartialFailure ==
    (IsCall /\ last.status = "raised") => Len(figs) = last.nfigs_before

C5_TailsAndRange ==
    /\ last.op = "calculate_tails" =>
          /\ last.ret[1] + 3 * last.std = last.mean
          /\ last.ret[2] - 3 * last.std = last.mean
          /\ last.std = 0 => last.ret = <<last.mean, last.mean>>
          /\ last.std > 0 =>
                LET r == calculate_xrange(last.mean, last.std)
                IN  /\ r[1] < last.ret[1] /\ last.ret[1] < last.mean
                    /\ last.mean < last.ret[2] /\ last.ret[2] < r[2]
    /\ last.op = "calculate_xrange" =>
          /\ last.ret[1] + 4 * last.std = last.mean
          /\ last.ret[2] - 4 * last.std = last.mean
          /\ last.std = 0 => last.ret = <<last.mean, last.mean>>
          /\ last.std > 0 =>
                LET t == calculate_tails(last.mean, last.std)
                IN  /\ last.ret[1] < t[1] /\ t[1] < last.mean
                    /\ last.mean < t[2] /\ t[2] < last.ret[2]

C5_Witness ==
    /\ last.op = "calculate_xrange"
    /\ last.mean = -1
    /\ last.std = 2
    /\ last.ret = <<-9, 7>>

C7_EvenlySpacedSamples ==
    (IsCall /\ last.distribution \in DOMAIN distributions /\ last.n >= 2) =>
        LET d == Div(last.n)
        IN  /\ Len(last.x) = last.n
            /\ Len(last.y) = last.n
            /\ last.x[1] = CallXmin * d
            /\ last.x[last.n] = CallXmax * d
            /\ \A i \in 1..(last.n - 1) :
                  /\ last.x[i] < last.x[i + 1]
                  /\ (last.x[i + 1] - last.x[i]) * (last.n - 1)
                        = (CallXmax - CallXmin) * d
            /\ \A i \in 1..last.n : last.y[i] = pdf(CallDist, last.x[i], d)

C7_Witness ==
    /\ IsCall
    /\ last.n = 9
    /\ last.distribution = "exponential"
    /\ Len(last.x) = 9
    /\ last.x[9] = CallXmax * 8
    /\ last.x[2] - last.x[1] = CallXmax - CallXmin

C9_OneFigurePerCall ==
    [][(last'.op = "plot_tail_events" /\ last'.status = "returned")
        => (/\ Len(figs') = Len(figs) + 1
            /\ last'.ret = Len(figs')
            /\ files' = files
            /\ files' = {})]_vars

C9_Witness ==
    /\ IsCall
    /\ last.status = "returned"
    /\ Len(figs) = 2
    /\ last.nfigs_before = 1
    /\ Complete(figs[1])

\* C10: a call of plot_tail_events that creates a figure puts its title, axis
\* labels, the three vertical lines (solid at each tail boundary, dashed at
\* the mean) and, when it returns, the y-limit of 1.2 times the largest
\* sampled density on that new figure, which is the one it returns, and
\* leaves every earlier figure of the registry as it was.
C10_DecorationsOnOwnFigure ==
    [][(last'.op = "plot_tail_events" /\ last'.at \notin {62, 75}) =>
        LET new == figs'[Len(figs')]
            dist == Frozen(last'.distribution, last'.params)
        IN  /\ Len(figs') = Len(figs) + 1
            /\ \A i \in 1..Len(figs) : figs'[i] = figs[i]
            /\ new.title = "Tail events for " \o last'.distribution \o " distribution"
            /\ new.xlabel = "x"
            /\ new.ylabel = "f(x)"
            /\ new.vlines = <<[x |-> Mean(dist) - 3 * Std(dist), linestyle |-> "-"],
                              [x |-> Mean(dist) + 3 * Std(dist), linestyle |-> "-"],
                              [x |-> Mean(dist), linestyle |-> "--"]>>
            /\ Len(new.fills) = 3
            /\ last'.status = "returned" =>
                  /\ last'.ret = Len(figs')
                  /\ new.ylim[1] = 0
                  /\ \E i \in 1..Len(last'.y) : new.ylim[2] = 12 * last'.y[i]
                  /\ \A i \in 1..Len(last'.y) : new.ylim[2] >= 12 * last'.y[i]
       ]_vars

C10_Witness ==
    /\ IsCall
    /\ last.status = "returned"
    /\ Len(figs) = 2
    /\ figs[1].title # figs[2].title
    /\ figs[1].ylim # <<>>
    /\ figs[2].ylim # figs[1].ylim

====
